---- MODULE Spec2Model ----
(***************************************************************************)
(* Red-Black-Tree-App.cpp: RedBlackTree<int> with insert, search, print.   *)
(* Nodes live in a heap `nodes` (a sequence: node i was the i-th `new`),   *)
(* pointers are indices into it and nullptr is 0.  An insert is followed   *)
(* step by step through fixInsertion: one step per case of the loop body,  *)
(* so that the tree is visible at every evaluation of the loop condition   *)
(* and after every rotation.                                               *)
(***************************************************************************)
EXTENDS Integers, Sequences, FiniteSets, Bags, TLC

\* ---- bounds of the unconstrained caller ----
MaxKey == 3
MaxNodes == 6

nullptr == 0

VARIABLES
    nodes,     \* heap: nodes[i] = [data, color, parent, left, right]
    root,      \* RedBlackTree::root
    pc,        \* "idle" | "fix" | "case3" | "case3B": position inside insert
    x,         \* fixInsertion's x (nullptr when no insert is running)
    rot,       \* rotateLeft/rotateRight calls made by the running/last insert
    inserted,  \* arguments of the insert calls so far, in call order
    driver,    \* which caller feeds insert: "any", "loadSample1", "loadSample2"
    op,        \* the public call made last: "new", "insert", "search", "print"
    arg,       \* argument of the last search
    res,       \* node returned by the last search (nullptr = not found)
    out        \* nodes written to cout by the last print, in output order

vars == <<nodes, root, pc, x, rot, inserted, driver, op, arg, res, out>>

\* ---- the two sample loaders ----
loadSample1 == <<10, 20, 30, 40, 50, 60, 70, 80, 90, 100>>
loadSample2 == <<40, 20, 70, 10, 30, 35, 37>>

\* keys the caller may search for when it runs a sample (main's searchKey
\* and the keys next to 35 in sample 2)
SampleSearchKeys == {20, 35, 36}

\* ---- Node ----
\* Node(T val): data = val, color = RED, parent = left = right = nullptr
Node(val) ==
    [data |-> val, color |-> "RED", parent |-> nullptr,
     left |-> nullptr, right |-> nullptr]

\* getDataAndColor(pn): "NULL(BLACK)" or to_string(data) + "(RED)"/"(BLACK)"
getDataAndColor(ns, pn) ==
    IF pn = nullptr THEN <<"NULL", "BLACK">>
    ELSE <<ns[pn].data, IF ns[pn].color = "RED" THEN "RED" ELSE "BLACK">>

\* rotateLeft that never re-links x's former parent to y
rotateLeft_noRelink(ns, rt, xx) ==
    LET y   == ns[xx].right
        n1  == [ns EXCEPT ![xx].right = ns[y].left]
        n2  == IF n1[y].left # nullptr
               THEN [n1 EXCEPT ![n1[y].left].parent = xx] ELSE n1
        n3  == [n2 EXCEPT ![y].parent = n2[xx].parent]
        xp  == n3[xx].parent
        rt1 == IF xp = nullptr THEN y ELSE rt
        n5  == [n3 EXCEPT ![y].left = xx]
        n6  == [n5 EXCEPT ![xx].parent = y]
    IN  [nodes |-> n6, root |-> rt1]

\* rotateLeft that also exchanges the colors of x and y
rotateLeft_swapColors(ns, rt, xx) ==
    LET y   == ns[xx].right
        n1  == [ns EXCEPT ![xx].right = ns[y].left]
        n2  == IF n1[y].left # nullptr
               THEN [n1 EXCEPT ![n1[y].left].parent = xx] ELSE n1
        n3  == [n2 EXCEPT ![y].parent = n2[xx].parent]
        xp  == n3[xx].parent
        rt1 == IF xp = nullptr THEN y ELSE rt
        n4  == IF xp = nullptr THEN n3
               ELSE IF xx = n3[xp].left THEN [n3 EXCEPT ![xp].left = y]
               ELSE [n3 EXCEPT ![xp].right = y]
        n5  == [n4 EXCEPT ![y].left = xx]
        n6  == [n5 EXCEPT ![xx].parent = y]
        n7  == [n6 EXCEPT ![xx].color = ns[y].color, ![y].color = ns[xx].color]
    IN  [nodes |-> n7, root |-> rt1]

\* ---- rotations: each returns the heap and the root after the call ----
rotateLeft(ns, rt, xx) ==
    LET y   == ns[xx].right
        n1  == [ns EXCEPT ![xx].right = ns[y].left]
        n2  == IF n1[y].left # nullptr
               THEN [n1 EXCEPT ![n1[y].left].parent = xx] ELSE n1
        n3  == [n2 EXCEPT ![y].parent = n2[xx].parent]
        xp  == n3[xx].parent
        rt1 == IF xp = nullptr THEN y ELSE rt
        n4  == IF xp = nullptr THEN n3
               ELSE IF xx = n3[xp].left THEN [n3 EXCEPT ![xp].left = y]
               ELSE [n3 EXCEPT ![xp].right = y]
        n5  == [n4 EXCEPT ![y].left = xx]
        n6  == [n5 EXCEPT ![xx].parent = y]
    IN  [nodes |-> n6, root |-> rt1]

\* rotateRight that drops y's right subtree instead of handing it to x
rotateRight_dropInner(ns, rt, xx) ==
    LET y   == ns[xx].left
        n1  == [ns EXCEPT ![xx].left = nullptr]
        n3  == [n1 EXCEPT ![y].parent = n1[xx].parent]
        xp  == n3[xx].parent
        rt1 == IF xp = nullptr THEN y ELSE rt
        n4  == IF xp = nullptr THEN n3
               ELSE IF xx = n3[xp].right THEN [n3 EXCEPT ![xp].right = y]
               ELSE [n3 EXCEPT ![xp].left = y]
        n5  == [n4 EXCEPT ![y].right = xx]
        n6  == [n5 EXCEPT ![xx].parent = y]
    IN  [nodes |-> n6, root |-> rt1]

\* rotateRight without y->right->parent = x
rotateRight_noReparent(ns, rt, xx) ==
    LET y   == ns[xx].left
        n1  == [ns EXCEPT ![xx].left = ns[y].right]
        n3  == [n1 EXCEPT ![y].parent = n1[xx].parent]
        xp  == n3[xx].parent
        rt1 == IF xp = nullptr THEN y ELSE rt
        n4  == IF xp = nullptr THEN n3
               ELSE IF xx = n3[xp].right THEN [n3 EXCEPT ![xp].right = y]
               ELSE [n3 EXCEPT ![xp].left = y]
        n5  == [n4 EXCEPT ![y].right = xx]
        n6  == [n5 EXCEPT ![xx].parent = y]
    IN  [nodes |-> n6, root |-> rt1]

rotateRight(ns, rt, xx) ==
    LET y   == ns[xx].left
        n1  == [ns EXCEPT ![xx].left = ns[y].right]
        n2  == IF n1[y].right # nullptr
               THEN [n1 EXCEPT ![n1[y].right].parent = xx] ELSE n1
        n3  == [n2 EXCEPT ![y].parent = n2[xx].parent]
        xp  == n3[xx].parent
        rt1 == IF xp = nullptr THEN y ELSE rt
        n4  == IF xp = nullptr THEN n3
               ELSE IF xx = n3[xp].right THEN [n3 EXCEPT ![xp].right = y]
               ELSE [n3 EXCEPT ![xp].left = y]
        n5  == [n4 EXCEPT ![y].right = xx]
        n6  == [n5 EXCEPT ![xx].parent = y]
    IN  [nodes |-> n6, root |-> rt1]

\* placement that sends an equal key to the left
RECURSIVE descend_tiesLeft(_, _, _, _)
descend_tiesLeft(ns, current, parent, val) ==
    IF current = nullptr THEN parent
    ELSE descend_tiesLeft(ns,
                 IF val <= ns[current].data THEN ns[current].left
                 ELSE ns[current].right,
                 current, val)

\* ---- insert: placement ----
\* the while loop of insert: returns the last non-null node on the path
RECURSIVE descend(_, _, _, _)
descend(ns, current, parent, val) ==
    IF current = nullptr THEN parent
    ELSE descend(ns,
                 IF val < ns[current].data THEN ns[current].left
                 ELSE ns[current].right,
                 current, val)

\* the new node linked on the wrong side of its parent
wire_swapped(ns, parent, newNode, val) ==
    LET n1 == [ns EXCEPT ![newNode].parent = parent]
    IN  IF val < n1[parent].data
        THEN [n1 EXCEPT ![parent].right = newNode]
        ELSE [n1 EXCEPT ![parent].left = newNode]

\* newNode->parent = parent; parent->left or parent->right = newNode
wire(ns, parent, newNode, val) ==
    LET n1 == [ns EXCEPT ![newNode].parent = parent]
    IN  IF val < n1[parent].data
        THEN [n1 EXCEPT ![parent].left = newNode]
        ELSE [n1 EXCEPT ![parent].right = newNode]

\* the keys the caller passes to the next insert
NextVals ==
    IF driver = "any"
    THEN IF Len(nodes) < MaxNodes THEN 1..MaxKey ELSE {}
    ELSE IF driver = "loadSample1"
    THEN IF Len(nodes) < Len(loadSample1)
         THEN {loadSample1[Len(nodes) + 1]} ELSE {}
    ELSE IF Len(nodes) < Len(loadSample2)
         THEN {loadSample2[Len(nodes) + 1]} ELSE {}

SearchKeys == IF driver = "any" THEN 1..MaxKey ELSE SampleSearchKeys

\* insert on an empty tree that leaves the root with the constructor's color
insertRoot_red(val) ==
    /\ pc = "idle"
    /\ root = nullptr
    /\ root' = Len(nodes) + 1
    /\ nodes' = Append(nodes, Node(val))
    /\ inserted' = Append(inserted, val)
    /\ op' = "insert"
    /\ rot' = 0
    /\ arg' = 0 /\ res' = nullptr /\ out' = <<>>
    /\ UNCHANGED <<pc, x, driver>>

\* insert(val) on an empty tree: the new node is the root, BLACK; returns
insertRoot(val) ==
    /\ pc = "idle"
    /\ root = nullptr
    /\ LET newNode == Len(nodes) + 1
           n0 == Append(nodes, Node(val))
       IN  /\ root' = newNode
           /\ nodes' = [n0 EXCEPT ![newNode].color = "BLACK"]
    /\ inserted' = Append(inserted, val)
    /\ op' = "insert"
    /\ rot' = 0
    /\ arg' = 0 /\ res' = nullptr /\ out' = <<>>
    /\ UNCHANGED <<pc, x, driver>>

\* insert(val) on a non-empty tree, up to the call of fixInsertion(newNode)
insertLeaf(val) ==
    /\ pc = "idle"
    /\ root # nullptr
    /\ LET newNode == Len(nodes) + 1
           n0 == Append(nodes, Node(val))
           parent == descend(n0, root, nullptr, val)
       IN  /\ nodes' = wire(n0, parent, newNode, val)
           /\ x' = newNode
    /\ inserted' = Append(inserted, val)
    /\ pc' = "fix"
    /\ op' = "insert"
    /\ rot' = 0
    /\ arg' = 0 /\ res' = nullptr /\ out' = <<>>
    /\ UNCHANGED <<root, driver>>

Init ==
    /\ nodes = <<>>
    /\ root = nullptr
    /\ pc = "idle"
    /\ x = nullptr
    /\ rot = 0
    /\ inserted = <<>>
    /\ driver \in {"any", "loadSample1", "loadSample2"}
    /\ op = "new"
    /\ arg = 0
    /\ res = nullptr
    /\ out = <<>>

\* ---- fixInsertion(x), one step per pass through the loop body ----
\* a loop that is never entered: no repair after placement
loopCond_never == FALSE

\* while (x != root && x->parent->color == RED); x != root is tested first,
\* then x->parent is dereferenced
loopCond ==
    /\ x # root
    /\ nodes[x].parent # nullptr
    /\ nodes[nodes[x].parent].color = "RED"

\* the loop condition was evaluated (x is the root, or x->parent could be
\* dereferenced) and is false
loopDone ==
    /\ x = root \/ nodes[x].parent # nullptr
    /\ ~loopCond

\* uncle && uncle->color == RED
uncleRed(ns, uncle) == uncle # nullptr /\ ns[uncle].color = "RED"

\* Case 1 without uncle->color = BLACK
recolor1_uncleRed(ns, xx, uncle) ==
    LET n1 == [ns EXCEPT ![ns[xx].parent].color = "BLACK"]
    IN  [n1 EXCEPT ![n1[n1[xx].parent].parent].color = "RED"]

\* Case 1 without x->parent->parent->color = RED
recolor1_noRed(ns, xx, uncle) ==
    LET n1 == [ns EXCEPT ![ns[xx].parent].color = "BLACK"]
    IN  [n1 EXCEPT ![uncle].color = "BLACK"]

\* x->parent->color = BLACK; uncle->color = BLACK; x->parent->parent->color = RED
recolor1(ns, xx, uncle) ==
    LET n1 == [ns EXCEPT ![ns[xx].parent].color = "BLACK"]
        n2 == [n1 EXCEPT ![uncle].color = "BLACK"]
    IN  [n2 EXCEPT ![n2[n2[xx].parent].parent].color = "RED"]

\* Case 3 without x->parent->parent->color = RED
recolor3_noRed(ns, xx) ==
    [ns EXCEPT ![ns[xx].parent].color = "BLACK"]

\* Case 3 without x->parent->color = BLACK
recolor3_noBlack(ns, xx) ==
    [ns EXCEPT ![ns[ns[xx].parent].parent].color = "RED"]

\* x->parent->color = BLACK; x->parent->parent->color = RED
recolor3(ns, xx) ==
    LET n1 == [ns EXCEPT ![ns[xx].parent].color = "BLACK"]
    IN  [n1 EXCEPT ![n1[n1[xx].parent].parent].color = "RED"]

\* x->parent == x->parent->parent->left (the grandparent is dereferenced)
parentIsLeft ==
    /\ nodes[nodes[x].parent].parent # nullptr
    /\ nodes[x].parent = nodes[nodes[nodes[x].parent].parent].left

parentIsRight ==
    /\ nodes[nodes[x].parent].parent # nullptr
    /\ nodes[x].parent # nodes[nodes[nodes[x].parent].parent].left

fixFrame == UNCHANGED <<inserted, driver, op, arg, res, out>>

\* Case 1 that recolors but leaves x where it is
fixCase1_stay ==
    /\ pc = "fix" /\ loopCond /\ parentIsLeft
    /\ LET uncle == nodes[nodes[nodes[x].parent].parent].right
       IN  /\ uncleRed(nodes, uncle)
           /\ nodes' = recolor1(nodes, x, uncle)
    /\ UNCHANGED <<x, root, pc, rot>>
    /\ fixFrame

\* Case 1: parent is a left child, uncle RED
fixCase1 ==
    /\ pc = "fix" /\ loopCond /\ parentIsLeft
    /\ LET uncle == nodes[nodes[nodes[x].parent].parent].right
       IN  /\ uncleRed(nodes, uncle)
           /\ nodes' = recolor1(nodes, x, uncle)
           /\ x' = nodes[nodes[x].parent].parent
    /\ UNCHANGED <<root, pc, rot>>
    /\ fixFrame

\* Case 2: parent is a left child, uncle black or absent, x is a right child:
\* x = x->parent; rotateLeft(x); then control falls into Case 3
fixCase2 ==
    /\ pc = "fix" /\ loopCond /\ parentIsLeft
    /\ ~uncleRed(nodes, nodes[nodes[nodes[x].parent].parent].right)
    /\ x = nodes[nodes[x].parent].right
    /\ nodes[nodes[x].parent].right # nullptr
    /\ LET t == rotateLeft(nodes, root, nodes[x].parent)
       IN  /\ nodes' = t.nodes
           /\ root' = t.root
    /\ x' = nodes[x].parent
    /\ rot' = rot + 1
    /\ pc' = "case3"
    /\ fixFrame

\* Case 3: recolor parent and grandparent, rotateRight(grandparent); reached
\* directly when x is a left child, or after Case 2
fixCase3 ==
    /\ \/ /\ pc = "fix" /\ loopCond /\ parentIsLeft
          /\ ~uncleRed(nodes, nodes[nodes[nodes[x].parent].parent].right)
          /\ x # nodes[nodes[x].parent].right
       \/ /\ pc = "case3"
          /\ nodes[x].parent # nullptr
          /\ nodes[nodes[x].parent].parent # nullptr
    /\ LET n1 == recolor3(nodes, x)
           g  == n1[n1[x].parent].parent
       IN  /\ n1[g].left # nullptr
           /\ LET t == rotateRight(n1, root, g)
              IN  /\ nodes' = t.nodes
                  /\ root' = t.root
    /\ rot' = rot + 1
    /\ pc' = "fix"
    /\ UNCHANGED x
    /\ fixFrame

\* Case 1B: parent is a right child, uncle RED
fixCase1B ==
    /\ pc = "fix" /\ loopCond /\ parentIsRight
    /\ LET uncle == nodes[nodes[nodes[x].parent].parent].left
       IN  /\ uncleRed(nodes, uncle)
           /\ nodes' = recolor1(nodes, x, uncle)
           /\ x' = nodes[nodes[x].parent].parent
    /\ UNCHANGED <<root, pc, rot>>
    /\ fixFrame

\* Case 2B: parent is a right child, uncle black or absent, x is a left child
fixCase2B ==
    /\ pc = "fix" /\ loopCond /\ parentIsRight
    /\ ~uncleRed(nodes, nodes[nodes[nodes[x].parent].parent].left)
    /\ x = nodes[nodes[x].parent].left
    /\ nodes[nodes[x].parent].left # nullptr
    /\ LET t == rotateRight(nodes, root, nodes[x].parent)
       IN  /\ nodes' = t.nodes
           /\ root' = t.root
    /\ x' = nodes[x].parent
    /\ rot' = rot + 1
    /\ pc' = "case3B"
    /\ fixFrame

\* Case 3B: recolor parent and grandparent, rotateLeft(grandparent)
fixCase3B ==
    /\ \/ /\ pc = "fix" /\ loopCond /\ parentIsRight
          /\ ~uncleRed(nodes, nodes[nodes[nodes[x].parent].parent].left)
          /\ x # nodes[nodes[x].parent].left
       \/ /\ pc = "case3B"
          /\ nodes[x].parent # nullptr
          /\ nodes[nodes[x].parent].parent # nullptr
    /\ LET n1 == recolor3(nodes, x)
           g  == n1[n1[x].parent].parent
       IN  /\ n1[g].right # nullptr
           /\ LET t == rotateLeft(n1, root, g)
              IN  /\ nodes' = t.nodes
                  /\ root' = t.root
    /\ rot' = rot + 1
    /\ pc' = "fix"
    /\ UNCHANGED x
    /\ fixFrame

\* loop exit without root->color = BLACK
fixExit_noBlack ==
    /\ pc = "fix" /\ loopDone
    /\ root # nullptr
    /\ pc' = "idle"
    /\ x' = nullptr
    /\ op' = "insert"
    /\ UNCHANGED <<nodes, root, rot, inserted, driver, arg, res, out>>

\* loop exit that blackens x instead of the root
fixExit_blackX ==
    /\ pc = "fix" /\ loopDone
    /\ root # nullptr
    /\ nodes' = [nodes EXCEPT ![x].color = "BLACK"]
    /\ pc' = "idle"
    /\ x' = nullptr
    /\ op' = "insert"
    /\ UNCHANGED <<root, rot, inserted, driver, arg, res, out>>

\* loop exit: root->color = BLACK; fixInsertion and insert return
fixExit ==
    /\ pc = "fix" /\ loopDone
    /\ root # nullptr
    /\ nodes' = [nodes EXCEPT ![root].color = "BLACK"]
    /\ pc' = "idle"
    /\ x' = nullptr
    /\ op' = "insert"
    /\ UNCHANGED <<root, rot, inserted, driver, arg, res, out>>

\* search descending to the wrong side
RECURSIVE search_wrongSide(_, _, _)
search_wrongSide(ns, node, val) ==
    IF node = nullptr \/ ns[node].data = val THEN node
    ELSE IF val < ns[node].data THEN search_wrongSide(ns, ns[node].right, val)
    ELSE search_wrongSide(ns, ns[node].left, val)

\* ---- search ----
RECURSIVE search(_, _, _)
search(ns, node, val) ==
    IF node = nullptr \/ ns[node].data = val THEN node
    ELSE IF val < ns[node].data THEN search(ns, ns[node].left, val)
    ELSE search(ns, ns[node].right, val)

\* search written with `node->data = val` for the comparison: the root is
\* re-keyed and returned
searchCall_assign(val) ==
    /\ pc = "idle"
    /\ IF root = nullptr
       THEN res' = nullptr /\ nodes' = nodes
       ELSE res' = root /\ nodes' = [nodes EXCEPT ![root].data = val]
    /\ arg' = val
    /\ op' = "search"
    /\ out' = <<>>
    /\ UNCHANGED <<root, pc, x, rot, inserted, driver>>

\* tree.search(val): const, returns the node or nullptr
searchCall(val) ==
    /\ pc = "idle"
    /\ res' = search(nodes, root, val)
    /\ arg' = val
    /\ op' = "search"
    /\ out' = <<>>
    /\ UNCHANGED <<nodes, root, pc, x, rot, inserted, driver>>

\* ---- print ----
\* inorderPrint visiting the right subtree before the left one
RECURSIVE inorderPrint_rightFirst(_, _)
inorderPrint_rightFirst(ns, pn) ==
    IF pn # nullptr
    THEN <<getDataAndColor(ns, pn)>> \o inorderPrint_rightFirst(ns, ns[pn].right)
                                      \o inorderPrint_rightFirst(ns, ns[pn].left)
    ELSE <<>>

\* inorderPrint(pn): the node itself, then its left subtree, then its right
RECURSIVE inorderPrint(_, _)
inorderPrint(ns, pn) ==
    IF pn # nullptr
    THEN <<getDataAndColor(ns, pn)>> \o inorderPrint(ns, ns[pn].left)
                                      \o inorderPrint(ns, ns[pn].right)
    ELSE <<>>

\* tree.print()
print ==
    /\ pc = "idle"
    /\ out' = inorderPrint(nodes, root)
    /\ op' = "print"
    /\ arg' = 0 /\ res' = nullptr
    /\ UNCHANGED <<nodes, root, pc, x, rot, inserted, driver>>

insert == \E val \in NextVals : insertRoot(val) \/ insertLeaf(val)

fixInsertion ==
    \/ fixCase1 \/ fixCase2 \/ fixCase3
    \/ fixCase1B \/ fixCase2B \/ fixCase3B
    \/ fixExit

Next ==
    \/ insert
    \/ fixInsertion
    \/ \E val \in SearchKeys : searchCall(val)
    \/ print

Spec == Init /\ [][Next]_vars

\* insert runs to completion once called: the single thread always takes the
\* next step of fixInsertion
SpecLive == Init /\ [][Next]_vars /\ WF_vars(fixInsertion)

\* ======================= properties =======================

\* insert has returned (or was never called): no insert is in progress
Returned == pc = "idle"

\* nodes of the subtree at t in left-node-right order; d bounds the depth
RECURSIVE inorderNodes(_, _, _)
inorderNodes(ns, t, d) ==
    IF t = nullptr \/ d = 0 THEN <<>>
    ELSE inorderNodes(ns, ns[t].left, d - 1) \o <<t>>
         \o inorderNodes(ns, ns[t].right, d - 1)

InOrder == inorderNodes(nodes, root, Len(nodes) + 1)
InOrderKeys == LET io == InOrder IN [i \in DOMAIN io |-> nodes[io[i]].data]
Reachable == {InOrder[i] : i \in DOMAIN InOrder}

NonDecreasing(s) == \A i \in 1..(Len(s) - 1) : s[i] <= s[i + 1]

BagOf(s) ==
    [k \in {s[i] : i \in DOMAIN s} |-> Cardinality({i \in DOMAIN s : s[i] = k})]

colorOf(p) == IF p = nullptr THEN "BLACK" ELSE nodes[p].color

\* number of BLACK nodes on every path from t down to an absent child, or -1
\* when two such paths differ
RECURSIVE blackCount(_, _, _)
blackCount(ns, t, d) ==
    IF t = nullptr THEN 0
    ELSE IF d = 0 THEN -1
    ELSE LET l == blackCount(ns, ns[t].left, d - 1)
             r == blackCount(ns, ns[t].right, d - 1)
         IN  IF l = -1 \/ r = -1 \/ l # r THEN -1
             ELSE l + (IF ns[t].color = "BLACK" THEN 1 ELSE 0)

\* number of nodes on the longest path from t to an absent child
RECURSIVE height(_, _, _)
height(ns, t, d) ==
    IF t = nullptr \/ d = 0 THEN 0
    ELSE LET l == height(ns, ns[t].left, d - 1)
             r == height(ns, ns[t].right, d - 1)
         IN  1 + (IF l > r THEN l ELSE r)

Height == height(nodes, root, Len(nodes) + 1)

RECURSIVE pow2(_)
pow2(e) == IF e = 0 THEN 1 ELSE 2 * pow2(e - 1)

\* C1: after every insert returns, no RED node of the tree has a RED child
C1_NoRedRed ==
    Returned =>
        \A n \in Reachable :
            nodes[n].color = "RED" =>
                /\ colorOf(nodes[n].left) = "BLACK"
                /\ colorOf(nodes[n].right) = "BLACK"

\* an insert that rotated has returned and left a RED node with children
C1_Witness ==
    /\ Returned /\ op = "insert" /\ rot > 0
    /\ \E n \in Reachable :
          /\ nodes[n].color = "RED"
          /\ nodes[n].left # nullptr /\ nodes[n].right # nullptr

\* C2: after every insert returns, all paths from any node down to an absent
\* child pass through the same number of BLACK nodes
C2_BlackHeight ==
    Returned => blackCount(nodes, root, Len(nodes) + 1) # -1

\* an insert that rotated twice has returned; the tree has black-height 2
C2_Witness ==
    /\ Returned /\ op = "insert" /\ rot = 2
    /\ blackCount(nodes, root, Len(nodes) + 1) = 2

\* C3: after every insert returns, the root exists and is BLACK
C3_RootBlack ==
    (Returned /\ Len(inserted) >= 1) =>
        (root # nullptr /\ nodes[root].color = "BLACK")

\* the red-red repair climbed to the root: both children of the root are
\* BLACK inner nodes and the root is BLACK again
C3_Witness ==
    /\ Returned /\ op = "insert" /\ root # nullptr
    /\ nodes[root].color = "BLACK"
    /\ nodes[root].left # nullptr /\ nodes[root].right # nullptr
    /\ nodes[nodes[root].left].color = "BLACK"
    /\ nodes[nodes[root].right].color = "BLACK"
    /\ \E n \in Reachable : nodes[n].color = "RED"

\* C4: after every insert returns, the left-node-right key sequence of the
\* tree is non-decreasing
C4_InOrderSorted == Returned => NonDecreasing(InOrderKeys)

\* a tree with duplicate keys, built with two rotations in the last insert
C4_Witness ==
    /\ Returned /\ op = "insert" /\ rot = 2 /\ Len(nodes) >= 5
    /\ \E i \in 1..(Len(InOrderKeys) - 1) : InOrderKeys[i] = InOrderKeys[i + 1]
    /\ \E i \in 1..(Len(InOrderKeys) - 1) : InOrderKeys[i] < InOrderKeys[i + 1]

\* ---- print ----
Printed == pc = "idle" /\ op = "print"
OutKeys == [i \in DOMAIN out |-> out[i][1]]

\* the nodes of the subtree at t
RECURSIVE subtree(_, _, _)
subtree(ns, t, d) ==
    IF t = nullptr \/ d = 0 THEN {}
    ELSE {t} \cup subtree(ns, ns[t].left, d - 1)
             \cup subtree(ns, ns[t].right, d - 1)

\* position of node a in the pre-order of the tree: one more than the number
\* of nodes that come before it, where b comes before a when b is a proper
\* ancestor of a, or b lies in the left and a in the right subtree of some node
PreOrderPos ==
    LET sub == [t \in 0..Len(nodes) |-> subtree(nodes, t, Len(nodes) + 1)]
        before(b, a) ==
            \/ b # a /\ a \in sub[b]
            \/ \E c \in sub[root] :
                  b \in sub[nodes[c].left] /\ a \in sub[nodes[c].right]
    IN  [a \in sub[root] |-> 1 + Cardinality({b \in sub[root] : before(b, a)})]

\* C5 as stated: print yields the inserted keys in non-decreasing order,
\* 10,20,30,35,37,40,70 for sample 2
C5_Original ==
    Printed =>
        /\ BagOf(OutKeys) = BagOf(inserted)
        /\ NonDecreasing(OutKeys)
        /\ inserted = loadSample2 => OutKeys = <<10, 20, 30, 35, 37, 40, 70>>

\* C5 amended: print yields the multiset of inserted keys in pre-order (each
\* node before its left subtree, the left subtree before the right one), each
\* with the node's color; 40,20,10,35,30,37,70 for sample 2
C5_PreOrder ==
    Printed =>
        /\ BagOf(OutKeys) = BagOf(inserted)
        /\ Len(out) = Cardinality(Reachable)
        /\ LET pos == PreOrderPos
           IN  \A a \in Reachable : out[pos[a]] = getDataAndColor(nodes, a)
        /\ inserted = loadSample2 => OutKeys = <<40, 20, 10, 35, 30, 37, 70>>

\* sample 2 has been loaded and printed, and the output is not sorted
C5_Witness ==
    /\ Printed /\ inserted = loadSample2
    /\ ~NonDecreasing(OutKeys)

\* ---- search ----
Searched == pc = "idle" /\ op = "search"

\* C6: search(k) returns nullptr iff no node of the tree stores k, and a
\* returned node stores k
C6_SearchCorrect ==
    Searched =>
        /\ res = nullptr <=> ~(\E n \in Reachable : nodes[n].data = arg)
        /\ res # nullptr => (res \in Reachable /\ nodes[res].data = arg)

\* a search found a key that is stored more than once, below the root
C6_Witness ==
    /\ Searched /\ res # nullptr /\ res # root
    /\ Cardinality({n \in Reachable : nodes[n].data = arg}) >= 2

\* C7: after n inserts exactly n nodes are reachable from the root, each
\* once, node i still holds the i-th inserted key, and the keys of the tree
\* are the inserted keys as a multiset
C7_NodesKept ==
    Returned =>
        /\ Len(InOrder) = Len(inserted)
        /\ Reachable = 1..Len(inserted)
        /\ \A i \in 1..Len(inserted) : nodes[i].data = inserted[i]
        /\ BagOf(InOrderKeys) = BagOf(inserted)

\* MaxNodes or more inserts were made, the last one with two rotations
C7_Witness ==
    /\ Returned /\ op = "insert" /\ rot = 2
    /\ Len(inserted) >= MaxNodes

\* C8: after n >= 1 inserts the height h satisfies 2^h <= (n+1)^2; the ten
\* ascending keys of sample 1 give a height of at most 6
C8_HeightBound ==
    (Returned /\ Len(inserted) >= 1) =>
        /\ pow2(Height) <= (Len(inserted) + 1) * (Len(inserted) + 1)
        /\ inserted = loadSample1 => Height <= 6

\* the ten ascending keys of sample 1 are in and the tree is 5 levels high
C8_Witness ==
    /\ Returned /\ inserted = loadSample1
    /\ Height = 5

\* C9: a search changes neither the root nor any node's key, color, parent,
\* left or right, and its result depends on the tree and the key alone
C9_SearchPure ==
    [][(pc = "idle" /\ pc' = "idle" /\ op' = "search") =>
          /\ nodes' = nodes
          /\ root' = root
          /\ res' = search(nodes', root', arg')
          /\ \A k \in SearchKeys :
                search(nodes', root', k) = search(nodes, root, k)]_vars

\* a search on a tree of three or more nodes has returned a node
C9_Witness ==
    /\ Searched /\ Len(nodes) >= 3 /\ res # nullptr

\* C10: an insert into an empty tree makes the new node the root, BLACK, with
\* no parent and no children, and returns without entering fixInsertion
C10_FirstInsert ==
    [][(root = nullptr /\ Len(inserted') = Len(inserted) + 1) =>
          /\ Len(nodes') = 1
          /\ root' = 1
          /\ nodes'[1] = [data |-> inserted'[1], color |-> "BLACK",
                          parent |-> nullptr, left |-> nullptr,
                          right |-> nullptr]
          /\ pc' = "idle" /\ x' = nullptr /\ rot' = 0
          /\ op' = "insert"]_vars

\* the first insert has returned
C10_Witness ==
    /\ Returned /\ op = "insert" /\ Len(inserted) = 1
    /\ root = 1 /\ nodes[1].color = "BLACK"

\* ---- shapes ----
StrictlyAscending(s) == \A i \in 1..(Len(s) - 1) : s[i] < s[i + 1]
StrictlyDescending(s) == \A i \in 1..(Len(s) - 1) : s[i] > s[i + 1]

\* C11: three distinct keys inserted in ascending or in descending order
\* give the middle key as BLACK root with the smallest key as RED left child
\* and the largest as RED right child, both leaves
C11_ThreeKeys ==
    (Returned /\ Len(inserted) = 3
       /\ (StrictlyAscending(inserted) \/ StrictlyDescending(inserted))) =>
        /\ root = 2
        /\ nodes[2].data = inserted[2] /\ nodes[2].color = "BLACK"
        /\ nodes[2].parent = nullptr
        /\ LET lo == IF inserted[1] < inserted[3] THEN 1 ELSE 3
               hi == IF inserted[1] < inserted[3] THEN 3 ELSE 1
           IN  /\ nodes[2].left = lo /\ nodes[2].right = hi
               /\ nodes[lo].data < nodes[2].data /\ nodes[2].data < nodes[hi].data
               /\ \A c \in {lo, hi} :
                     /\ nodes[c].color = "RED" /\ nodes[c].parent = 2
                     /\ nodes[c].left = nullptr /\ nodes[c].right = nullptr
        /\ Reachable = {1, 2, 3}

\* three keys went in in descending order and the third insert has returned
C11_Witness ==
    /\ Returned /\ op = "insert" /\ Len(inserted) = 3
    /\ StrictlyDescending(inserted)
    /\ rot = 1 /\ root = 2

\* C12: after every insert returns, nodes with equal keys stand in the
\* left-node-right sequence in the order of their insertion (node i is the
\* i-th inserted), so the newest node comes after every older equal key
C12_TiesStable ==
    Returned =>
        LET io == InOrder
        IN  \A i, j \in DOMAIN io :
                (i < j /\ nodes[io[i]].data = nodes[io[j]].data)
                    => io[i] < io[j]

\* a key was inserted three times and the last insert rotated; one of the
\* equal keys sits in the left subtree of another
C12_Witness ==
    /\ Returned /\ op = "insert" /\ rot > 0
    /\ \E a, b \in Reachable :
          /\ a # b /\ nodes[a].data = nodes[b].data
          /\ nodes[a].left # nullptr
          /\ b \in subtree(nodes, nodes[a].left, Len(nodes) + 1)
    /\ \E k \in 1..MaxKey :
          Cardinality({n \in Reachable : nodes[n].data = k}) >= 3

\* C13: an insert makes at most 2 rotations; after a Case 2/3 pass x's
\* parent is BLACK, so the next evaluation of the loop condition ends the loop
C13_RotationBound ==
    /\ rot <= 2
    /\ (pc = "fix" /\ rot > 0) =>
          /\ x # root
          /\ nodes[x].parent # nullptr
          /\ nodes[nodes[x].parent].color = "BLACK"
          /\ loopDone

\* an insert that went through Case 2 and Case 3 stands at the loop condition
\* with two rotations made; the new node is now x's parent
C13_Witness ==
    /\ pc = "fix" /\ rot = 2
    /\ nodes[x].parent = Len(nodes)

\* number of parent links from n up to the root
RECURSIVE depthOf(_, _, _)
depthOf(ns, n, d) ==
    IF n = nullptr \/ d = 0 THEN 0
    ELSE IF ns[n].parent = nullptr THEN 0
    ELSE 1 + depthOf(ns, ns[n].parent, d - 1)

Depth(ns, n) == depthOf(ns, n, Len(ns) + 1)

\* C14: every insert terminates: placement ends at an absent child of a node
\* of the tree, a Case 1 pass moves x up by exactly two levels, a Case 2/3
\* pass is the last one, and an insert that has started always returns
C14_Terminates ==
    /\ [][/\ (pc = "idle" /\ pc' = "fix") =>
                LET p == nodes'[x'].parent
                IN  /\ p \in 1..Len(nodes)
                    /\ x' = Len(nodes) + 1
                    /\ \/ nodes[p].left = nullptr /\ nodes'[p].left = x'
                       \/ nodes[p].right = nullptr /\ nodes'[p].right = x'
          /\ (pc = "fix" /\ pc' = "fix" /\ rot' = rot) =>
                /\ x' = nodes[nodes[x].parent].parent
                /\ Depth(nodes', x') = Depth(nodes, x) - 2
          /\ (pc' = "fix" /\ rot' > rot) => loopDone'
       ]_vars
    /\ (pc # "idle") ~> (pc = "idle")

\* an insert has returned whose Case 1 pass moved x from the new node, three
\* levels below the root, to its grandparent, which stayed RED
C14_Witness ==
    /\ Returned /\ op = "insert" /\ Len(inserted) >= 6
    /\ Depth(nodes, Len(nodes)) >= 3
    /\ nodes[nodes[nodes[Len(nodes)].parent].parent].color = "RED"

\* C15: fixInsertion never dereferences nullptr: x and the root exist, a
\* non-root x has a parent, inside the loop body the grandparent exists, and
\* the node handed to rotateLeft has a right child, the one handed to
\* rotateRight a left child
C15_NoNullDeref ==
    /\ pc # "idle" => (x # nullptr /\ root # nullptr)
    /\ (pc = "fix" /\ x # root) => nodes[x].parent # nullptr
    /\ (pc = "fix" /\ x # root /\ nodes[nodes[x].parent].color = "RED") =>
          LET p == nodes[x].parent
              g == nodes[p].parent
          IN  /\ g # nullptr
              /\ (p = nodes[g].left /\ ~uncleRed(nodes, nodes[g].right)) =>
                    IF x = nodes[p].right
                    THEN nodes[p].right # nullptr      \* rotateLeft(p)
                    ELSE nodes[g].left # nullptr       \* rotateRight(g)
              /\ (p # nodes[g].left /\ ~uncleRed(nodes, nodes[g].left)) =>
                    IF x = nodes[p].left
                    THEN nodes[p].left # nullptr       \* rotateRight(p)
                    ELSE nodes[g].right # nullptr      \* rotateLeft(g)
    /\ pc \in {"case3", "case3B"} =>
          /\ nodes[x].parent # nullptr
          /\ nodes[nodes[x].parent].parent # nullptr
          /\ pc = "case3" =>
                nodes[nodes[nodes[x].parent].parent].left # nullptr
          /\ pc = "case3B" =>
                nodes[nodes[nodes[x].parent].parent].right # nullptr

\* Case 2 has rotated and Case 3 is about to rotate a grandparent that is
\* not the root
C15_Witness ==
    /\ pc = "case3"
    /\ nodes[nodes[x].parent].parent # root
    /\ nodes[nodes[nodes[x].parent].parent].left = nodes[x].parent

\* C16: at every evaluation of the loop condition x is RED, all paths below
\* any node have the same black count, the left-node-right keys are
\* non-decreasing, x is the only RED node that may have a RED parent, and the
\* root is RED only if it is x
C16_LoopInvariant ==
    pc = "fix" =>
        /\ nodes[x].color = "RED"
        /\ blackCount(nodes, root, Len(nodes) + 1) # -1
        /\ NonDecreasing(InOrderKeys)
        /\ \A n \in Reachable :
              (/\ nodes[n].color = "RED"
               /\ nodes[n].parent # nullptr
               /\ nodes[nodes[n].parent].color = "RED") => n = x
        /\ nodes[root].color = "RED" => x = root

\* the loop condition is evaluated with x at a RED root after a Case 1 pass
C16_Witness ==
    /\ pc = "fix" /\ x = root /\ nodes[root].color = "RED"
    /\ Len(nodes) >= 4

\* ---- rotations ----
\* the heaps a rotation is called on in the current state: the heap as it
\* is (Case 2, 2B) and the heap after the Case 3 recolor (Case 3, 3B)
RotationHeaps ==
    {nodes} \cup
    (IF /\ pc # "idle" /\ x # nullptr
        /\ nodes[x].parent # nullptr
        /\ nodes[nodes[x].parent].parent # nullptr
     THEN {recolor3(nodes, x)} ELSE {})

\* a Case 3/3B rotation has just been made at the root and the promoted node
\* (now x's parent and the root) handed its inner subtree to the old root
RotatedInner ==
    /\ pc = "fix" /\ rot >= 1 /\ x # root
    /\ nodes[x].parent = root
    /\ LET p == nodes[x].parent
       IN  \/ /\ nodes[p].left # nullptr /\ nodes[p].left # x
              /\ nodes[nodes[p].left].right # nullptr
           \/ /\ nodes[p].right # nullptr /\ nodes[p].right # x
              /\ nodes[nodes[p].right].left # nullptr

\* C17: rotateLeft(n) with n.right present and rotateRight(n) with n.left
\* present leave the left-node-right node sequence of the whole tree
\* unchanged, and the sequence of the subtree that was at n is the sequence
\* of the subtree at the promoted child
C17_RotationKeepsOrder ==
    LET io == InOrder
        R  == {io[i] : i \in DOMAIN io}
        d  == Len(nodes) + 1
    IN  \A ns \in RotationHeaps : \A n \in R :
            /\ ns[n].right # nullptr =>
                  LET t == rotateLeft(ns, root, n)
                  IN  /\ inorderNodes(t.nodes, t.root, d) = io
                      /\ inorderNodes(t.nodes, ns[n].right, d)
                            = inorderNodes(ns, n, d)
            /\ ns[n].left # nullptr =>
                  LET t == rotateRight(ns, root, n)
                  IN  /\ inorderNodes(t.nodes, t.root, d) = io
                      /\ inorderNodes(t.nodes, ns[n].left, d)
                            = inorderNodes(ns, n, d)

C17_Witness == RotatedInner /\ Len(InOrder) >= 5

\* parent and child links of heap ns with root rt agree
LinksOK(ns, rt) ==
    /\ rt # nullptr => ns[rt].parent = nullptr
    /\ \A n \in 1..Len(ns) :
          /\ ns[n].left # nullptr => ns[ns[n].left].parent = n
          /\ ns[n].right # nullptr => ns[ns[n].right].parent = n
          /\ ns[n].left # nullptr => ns[n].left # ns[n].right
          /\ ns[n].parent = nullptr => n = rt
          /\ ns[n].parent # nullptr =>
                (ns[ns[n].parent].left = n \/ ns[ns[n].parent].right = n)

\* no node of the heap is the child of two nodes
NoSharedChild ==
    \A n \in 1..Len(nodes) :
        Cardinality({m \in 1..Len(nodes) :
                       nodes[m].left = n \/ nodes[m].right = n}) <= 1

\* y has taken the place n had in heap ns: it is the root if n was, else
\* the child of n's former parent on the side n was
Promoted(ns, t, n, y) ==
    /\ t.nodes[y].parent = ns[n].parent
    /\ t.nodes[n].parent = y
    /\ IF ns[n].parent = nullptr
       THEN n = root /\ t.root = y
       ELSE LET xp == ns[n].parent
            IN  /\ t.root = root
                /\ IF ns[xp].left = n
                   THEN t.nodes[xp].left = y /\ t.nodes[xp].right = ns[xp].right
                   ELSE t.nodes[xp].right = y /\ t.nodes[xp].left = ns[xp].left

\* C18: in every state (so after every rotation and after every insert) the
\* root has no parent, every child points back at its parent and no node is
\* a child twice; a rotation puts the promoted node where the rotated one was
C18_LinksConsistent ==
    /\ LinksOK(nodes, root)
    /\ NoSharedChild
    /\ LET R == Reachable IN \A ns \in RotationHeaps : \A n \in R :
          /\ ns[n].right # nullptr =>
                LET t == rotateLeft(ns, root, n)
                IN  /\ LinksOK(t.nodes, t.root)
                    /\ Promoted(ns, t, n, ns[n].right)
                    /\ t.nodes[ns[n].right].left = n
          /\ ns[n].left # nullptr =>
                LET t == rotateRight(ns, root, n)
                IN  /\ LinksOK(t.nodes, t.root)
                    /\ Promoted(ns, t, n, ns[n].left)
                    /\ t.nodes[ns[n].left].right = n

\* Case 2B has rotated below the root: the new node was promoted and the
\* grandparent now points at it on the right, where x's old parent was
C18_Witness ==
    /\ pc = "case3B" /\ rot = 1
    /\ nodes[x].parent = Len(nodes)
    /\ nodes[Len(nodes)].right = x
    /\ nodes[nodes[Len(nodes)].parent].right = Len(nodes)

\* C20: a rotation changes no node's color and no node's key
C20_RotationKeepsColorKey ==
    LET R == Reachable IN \A ns \in RotationHeaps : \A n \in R :
        /\ ns[n].right # nullptr =>
              LET t == rotateLeft(ns, root, n)
              IN  /\ Len(t.nodes) = Len(ns)
                  /\ \A i \in 1..Len(ns) :
                        /\ t.nodes[i].color = ns[i].color
                        /\ t.nodes[i].data = ns[i].data
        /\ ns[n].left # nullptr =>
              LET t == rotateRight(ns, root, n)
              IN  /\ Len(t.nodes) = Len(ns)
                  /\ \A i \in 1..Len(ns) :
                        /\ t.nodes[i].color = ns[i].color
                        /\ t.nodes[i].data = ns[i].data

\* Case 2 has rotated a RED node under its RED child: both are still RED
C20_Witness ==
    /\ pc \in {"case3", "case3B"} /\ rot = 1
    /\ nodes[x].color = "RED" /\ nodes[nodes[x].parent].color = "RED"
    /\ nodes[x].parent = Len(nodes)

\* C19: an insert that places the new node under a BLACK parent changes
\* nothing but the new RED leaf and the one child link of that parent: no
\* rotation, no recolor, same root, every other node as before
C19_BlackParentFrame ==
    [][/\ (/\ pc = "idle" /\ pc' = "fix"
           /\ nodes'[nodes'[x'].parent].color = "BLACK") =>
              LET new == Len(nodes) + 1
                  p   == nodes'[new].parent
              IN  /\ x' = new /\ Len(nodes') = new
                  /\ root' = root /\ rot' = 0
                  /\ nodes'[new] = [data |-> inserted'[new], color |-> "RED",
                                    parent |-> p, left |-> nullptr,
                                    right |-> nullptr]
                  /\ \A i \in 1..Len(nodes) : i # p => nodes'[i] = nodes[i]
                  /\ \/ /\ nodes[p].left = nullptr
                        /\ nodes'[p] = [nodes[p] EXCEPT !.left = new]
                     \/ /\ nodes[p].right = nullptr
                        /\ nodes'[p] = [nodes[p] EXCEPT !.right = new]
       /\ (/\ pc = "fix" /\ rot = 0 /\ x = Len(nodes)
           /\ nodes[nodes[x].parent].color = "BLACK") =>
              /\ nodes' = nodes /\ root' = root /\ rot' = 0
              /\ pc' = "idle"
      ]_vars

\* a new RED leaf has been placed under a BLACK parent below the root and
\* the loop condition is about to be evaluated for the first time
C19_Witness ==
    /\ pc = "fix" /\ rot = 0 /\ x = Len(nodes)
    /\ nodes[x].color = "RED"
    /\ nodes[nodes[x].parent].color = "BLACK"
    /\ nodes[x].parent # root

====
